---- MODULE Spec2Model ----
(***************************************************************************)
(* A model of src/create_proxy.py: the deck-list pipeline                  *)
(*   _read_txt -> _texts_data_to_jsons -> _create_print_pdf                *)
(* of create_proxy, with the card service, the image download and the      *)
(* input file as the environment.                                          *)
(*                                                                         *)
(* Strings are sequences of one-character strings, so that text[0],        *)
(* text[2:], save_name[-3:], strip() and split(" ") are computed as the    *)
(* code computes them.                                                     *)
(***************************************************************************)
EXTENDS Integers, Sequences, FiniteSets, TLC

VARIABLES
    file,          \* the lines f.readlines() yields for file_name
    save_name,     \* the save_name argument of create_proxy
    pc,            \* position of the run
    err,           \* the exception that ended the run, "none" while there is none
    texts,         \* _read_txt's result
    jsons,         \* the list _texts_data_to_jsons builds
    sleeps,        \* number of sleep(1.0) calls so far
    lookups,       \* number of Card.where(...).all() queries so far
    fetches,       \* number of urlopen calls so far
    fetch_i,       \* number of jsons the loop of _create_print_pdf has consumed
    imgs,          \* the flat image list of _create_print_pdf
    pdf_name,      \* save_name after the extension test
    canvas_open,   \* canvas.Canvas(save_name, ...) has been constructed
    chunked_imgs,  \* list(chunked(imgs, 9))
    pages,         \* what _arrange_imgs drew, one sequence of draws per call
    show_pages,    \* number of pdf.showPage() calls
    saved,         \* pdf.save() has written the output file
    q_name,        \* name argument of a single _find_card_url_by_name call
    q_language,    \* language argument of that call
    q_cards,       \* the candidate list the service returned to that call
    q_result       \* outcome of that call

vars == <<file, save_name, pc, err, texts, jsons, sleeps, lookups, fetches,
          fetch_i, imgs, pdf_name, canvas_open, chunked_imgs, pages,
          show_pages, saved, q_name, q_language, q_cards, q_result>>

(***************************************************************************)
(* Bounds of the model.                                                    *)
(***************************************************************************)
MaxLines == 2
MaxCards == 2
MaxNameLen == 4

SeqsUpTo(S, n) == UNION {[1..k -> S] : k \in 0..n}

Min(a, b) == IF a < b THEN a ELSE b

(***************************************************************************)
(* Characters and strings.                                                 *)
(***************************************************************************)
Whitespace == {" ", "\n"}

DigitChars == {"0", "1", "2", "3", "4", "5", "6", "7", "8", "9"}

AsciiLetters == {"a", "b", "D"}

\* int(c) for a one-character string c
DigitVal(c) ==
    CASE c = "0" -> 0 [] c = "1" -> 1 [] c = "2" -> 2 [] c = "3" -> 3
      [] c = "4" -> 4 [] c = "5" -> 5 [] c = "6" -> 6 [] c = "7" -> 7
      [] c = "8" -> 8 [] c = "9" -> 9

RECURSIVE LStrip(_)
LStrip(s) ==
    IF s = <<>> THEN <<>>
    ELSE IF Head(s) \in Whitespace THEN LStrip(Tail(s)) ELSE s

RECURSIVE RStrip(_)
RStrip(s) ==
    IF s = <<>> THEN <<>>
    ELSE IF s[Len(s)] \in Whitespace THEN RStrip(SubSeq(s, 1, Len(s) - 1)) ELSE s

\* str.strip()
Strip(s) == RStrip(LStrip(s))

\* index of the first c in s at or after position from, 0 when there is none
RECURSIVE IndexFrom(_, _, _)
IndexFrom(s, c, from) ==
    IF from > Len(s) THEN 0
    ELSE IF s[from] = c THEN from ELSE IndexFrom(s, c, from + 1)

(***************************************************************************)
(* commons.py: the stop words and the two patterns.                        *)
(***************************************************************************)
STOP_WORDS == {<<"D">>}

\* TRANSLATE_CONDITION: the name between the bracket markers, searched
\* anywhere in the line (the first opening marker that a closing one follows)
TranslateOpen(text) == IndexFrom(text, "[", 1)

TranslateSearch(text) ==
    /\ TranslateOpen(text) # 0
    /\ IndexFrom(text, "]", TranslateOpen(text) + 1) # 0

TranslateGroup(text) ==
    SubSeq(text, TranslateOpen(text) + 1,
           IndexFrom(text, "]", TranslateOpen(text) + 1) - 1)

\* ENGLISH_CONDITION: a one-digit count, a blank, then an ASCII name
EnglishMatch(text) ==
    /\ Len(text) >= 3
    /\ text[1] \in DigitChars
    /\ text[2] = " "
    /\ text[3] \in AsciiLetters

(***************************************************************************)
(* The lines an input file is made of: counts of one and two digits, a     *)
(* zero count, a bracketed name, a non-ASCII name with leading blank, a    *)
(* count without name, a line without count, a stop word, a blank line.    *)
(***************************************************************************)
RawLines ==
    { <<"4", " ", "a", "\n">>,
      <<"9", " ", "a", "\n">>,
      <<"1", "0", " ", "a", "\n">>,
      <<"0", " ", "a", "\n">>,
      <<"2", " ", "[", "J", "]", "\n">>,
      <<" ", "1", " ", "J", "\n">>,
      <<"4", "\n">>,
      <<"a", "\n">>,
      <<"D", "\n">>,
      <<"\n">> }

(***************************************************************************)
(* _read_txt                                                               *)
(***************************************************************************)
RECURSIVE ReadLines(_)
ReadLines(lines) ==
    IF lines = <<>> THEN <<>>
    ELSE IF Len(Strip(Head(lines))) > 0 /\ Strip(Head(lines)) \notin STOP_WORDS
         THEN <<Strip(Head(lines))>> \o ReadLines(Tail(lines))
         ELSE ReadLines(Tail(lines))

NothingWrittenNever(ts) == FALSE

NothingWritten(ts) == Len(ts) = 0

ReadTxt ==
    /\ pc = "read"
    /\ texts' = ReadLines(file)
    /\ IF NothingWritten(texts')
       THEN pc' = "aborted" /\ err' = "ValueError_empty"
       ELSE pc' = "lookup" /\ err' = err
    /\ UNCHANGED <<file, save_name, jsons, sleeps, lookups, fetches, fetch_i,
                   imgs, pdf_name, canvas_open, chunked_imgs, pages,
                   show_pages, saved, q_name, q_language, q_cards, q_result>>

(***************************************************************************)
(* The card service and one lookup.                                        *)
(***************************************************************************)
None == "None"

ImageUrls == {"u1", "u2"}

ForeignNameLists ==
    { <<>>,
      <<[language |-> "Japanese", name |-> <<"J">>]>>,
      <<[language |-> "Japanese", name |-> <<"J", "K">>]>>,
      <<[language |-> "French", name |-> <<"J">>]>>,
      <<[language |-> "French", name |-> <<"J">>],
        [language |-> "Japanese", name |-> <<"J">>]>> }

Cards ==
    [name : {<<"a">>, <<"a", "b">>},
     foreign_names : ForeignNameLists,
     image_url : ImageUrls \cup {None}]

\* what Card.where(...).all() can return
Responses == SeqsUpTo(Cards, MaxCards)

IndexError == "IndexError"

HasLanguage(language, card) ==
    \E k \in 1..Len(card.foreign_names) : card.foreign_names[k].language = language

SearchCardNameByLanguage(language, card) ==
    LET IsLanguage(info) == info.language = language
    IN  Head(SelectSeq(card.foreign_names, IsLanguage)).name

IsSameCardName(name, language, card) ==
    IF language = "English"
    THEN name = card.name
    ELSE name = SearchCardNameByLanguage(language, card)

\* for card in cards: if card.image_url != None: return card.image_url
RECURSIVE FirstImageUrl(_)
FirstImageUrl(cards) ==
    IF cards = <<>> THEN None
    ELSE IF Head(cards).image_url # None THEN Head(cards).image_url
         ELSE FirstImageUrl(Tail(cards))

FindCardUrlInChecked(name, language, cards) ==
    IF language # "English" /\ \E k \in 1..Len(cards) : ~HasLanguage(language, cards[k])
    THEN IndexError
    ELSE LET Same(card) == IsSameCardName(name, language, card)
             checked_cards == SelectSeq(cards, Same)
         IN  IF Len(checked_cards) = 0 THEN None ELSE FirstImageUrl(checked_cards)

\* _find_card_url_by_name on the candidate list the service returned
FindCardUrlByName(name, language, cards) ==
    IF language # "English" /\ \E k \in 1..Len(cards) : ~HasLanguage(language, cards[k])
    THEN IndexError
    ELSE LET Same(card) == IsSameCardName(name, language, card)
             checked_cards == SelectSeq(cards, Same)
         IN  IF Len(checked_cards) = 0 THEN None ELSE FirstImageUrl(cards)

(***************************************************************************)
(* _texts_data_to_jsons: one action per iteration of its loop.             *)
(***************************************************************************)
NumberAllDigits(text) ==
    IF Len(text) >= 2 /\ text[2] \in DigitChars
    THEN 10 * DigitVal(text[1]) + DigitVal(text[2])
    ELSE DigitVal(text[1])

\* int(text[0])
Number(text) == DigitVal(text[1])

\* text.split(" ")[1] exists
HasSecondWord(text) == IndexFrom(text, " ", 1) # 0

SecondWord(text) ==
    LET p == IndexFrom(text, " ", 1)
        q == IndexFrom(text, " ", p + 1)
    IN  SubSeq(text, p + 1, IF q = 0 THEN Len(text) ELSE q - 1)

CardName(text) ==
    IF TranslateSearch(text) THEN TranslateGroup(text)
    ELSE IF EnglishMatch(text) THEN SubSeq(text, 3, Len(text))
    ELSE SecondWord(text)

CardLanguage(text) ==
    IF TranslateSearch(text) THEN "Japanese"
    ELSE IF EnglishMatch(text) THEN "English"
    ELSE "Japanese"

\* the iteration raises before it reaches the lookup
ParseError(text) ==
    IF text[1] \notin DigitChars THEN "ValueError_int"
    ELSE IF ~TranslateSearch(text) /\ ~EnglishMatch(text) /\ ~HasSecondWord(text)
         THEN "IndexError_words"
    ELSE "none"

CurrentText == texts[Len(jsons) + 1]

ParseFails ==
    /\ pc = "lookup"
    /\ Len(jsons) < Len(texts)
    /\ ParseError(CurrentText) # "none"
    /\ pc' = "aborted"
    /\ err' = ParseError(CurrentText)
    /\ UNCHANGED <<file, save_name, texts, jsons, sleeps, lookups, fetches,
                   fetch_i, imgs, pdf_name, canvas_open, chunked_imgs, pages,
                   show_pages, saved, q_name, q_language, q_cards, q_result>>

\* Card.where(...).all() raises: the service cannot be reached
ServiceUnreachable ==
    /\ pc = "lookup"
    /\ Len(jsons) < Len(texts)
    /\ ParseError(CurrentText) = "none"
    /\ sleeps' = sleeps + 1
    /\ lookups' = lookups + 1
    /\ pc' = "aborted"
    /\ err' = "ServiceUnreachable"
    /\ UNCHANGED <<file, save_name, texts, jsons, fetches, fetch_i, imgs,
                   pdf_name, canvas_open, chunked_imgs, pages, show_pages,
                   saved, q_name, q_language, q_cards, q_result>>

CardInfo(text, image_url) ==
    [number |-> Number(text),
     name |-> CardName(text),
     language |-> CardLanguage(text),
     image_url |-> IF image_url = None THEN "" ELSE image_url]

\* the (name, language) pairs the lines of RawLines are looked up with
RunQueries ==
    {<<CardName(Strip(l)), CardLanguage(Strip(l))>> :
        l \in {r \in RawLines : /\ Len(Strip(r)) > 0
                                 /\ ParseError(Strip(r)) = "none"}}

\* what _find_card_url_by_name can end with, over every answer of the service
LookupOutcomes ==
    [q \in RunQueries |-> {FindCardUrlByName(q[1], q[2], cards) : cards \in Responses}]

LookupCard ==
    /\ pc = "lookup"
    /\ Len(jsons) < Len(texts)
    /\ ParseError(CurrentText) = "none"
    /\ sleeps' = sleeps + 1
    /\ lookups' = lookups + 1
    /\ \E image_url \in LookupOutcomes[<<CardName(CurrentText), CardLanguage(CurrentText)>>] :
         IF image_url = IndexError
         THEN /\ pc' = "aborted"
              /\ err' = "IndexError_foreign_names"
              /\ jsons' = jsons
         ELSE /\ pc' = pc
              /\ err' = err
              /\ jsons' = Append(jsons, CardInfo(CurrentText, image_url))
    /\ UNCHANGED <<file, save_name, texts, fetches, fetch_i, imgs, pdf_name,
                   canvas_open, chunked_imgs, pages, show_pages, saved,
                   q_name, q_language, q_cards, q_result>>

\* the loop is exhausted: return jsons, enter _create_print_pdf
TextsDataToJsonsReturn ==
    /\ pc = "lookup"
    /\ Len(jsons) = Len(texts)
    /\ pc' = "fetch"
    /\ UNCHANGED <<file, save_name, err, texts, jsons, sleeps, lookups, fetches,
                   fetch_i, imgs, pdf_name, canvas_open, chunked_imgs, pages,
                   show_pages, saved, q_name, q_language, q_cards, q_result>>

(***************************************************************************)
(* _create_print_pdf: the download loop.                                   *)
(***************************************************************************)
ImagesForOneCopy(json, first_id) ==
    IF json.image_url = "" THEN <<>>
    ELSE <<[url |-> json.image_url, id |-> first_id + 1]>>

\* [_url_to_jpeg(image_url) for _ in range(json["number"])], or nothing for
\* an entry without image; every download makes a new image object
ImagesFor(json, first_id) ==
    IF json.image_url = "" THEN <<>>
    ELSE [k \in 1..json.number |-> [url |-> json.image_url, id |-> first_id + k]]

FetchEntry ==
    /\ pc = "fetch"
    /\ fetch_i < Len(jsons)
    /\ imgs' = imgs \o ImagesFor(jsons[fetch_i + 1], fetches)
    /\ fetches' = fetches + Len(ImagesFor(jsons[fetch_i + 1], fetches))
    /\ fetch_i' = fetch_i + 1
    /\ UNCHANGED <<file, save_name, pc, err, texts, jsons, sleeps, lookups,
                   pdf_name, canvas_open, chunked_imgs, pages, show_pages,
                   saved, q_name, q_language, q_cards, q_result>>

FetchFailureSavesPartial ==
    /\ pc = "fetch"
    /\ fetch_i < Len(jsons)
    /\ jsons[fetch_i + 1].image_url # ""
    /\ \E k \in 1..jsons[fetch_i + 1].number : fetches' = fetches + k
    /\ pc' = "aborted"
    /\ err' = "FetchFailure"
    /\ canvas_open' = TRUE
    /\ saved' = TRUE
    /\ UNCHANGED <<file, save_name, texts, jsons, sleeps, lookups, fetch_i,
                   imgs, pdf_name, chunked_imgs, pages, show_pages,
                   q_name, q_language, q_cards, q_result>>

\* urlopen or Image.open raises in the k-th download of an entry
FetchFailure ==
    /\ pc = "fetch"
    /\ fetch_i < Len(jsons)
    /\ jsons[fetch_i + 1].image_url # ""
    /\ \E k \in 1..jsons[fetch_i + 1].number : fetches' = fetches + k
    /\ pc' = "aborted"
    /\ err' = "FetchFailure"
    /\ UNCHANGED <<file, save_name, texts, jsons, sleeps, lookups, fetch_i,
                   imgs, pdf_name, canvas_open, chunked_imgs, pages,
                   show_pages, saved, q_name, q_language, q_cards, q_result>>

(***************************************************************************)
(* _create_print_pdf: the save name, the chunks, the canvas.               *)
(***************************************************************************)
\* s[-3:]
LastThree(s) == SubSeq(s, IF Len(s) > 3 THEN Len(s) - 2 ELSE 1, Len(s))

NormalizeSaveName(name) ==
    IF LastThree(name) # <<"p", "d", "f">>
    THEN name \o <<".", "p", "d", "f">>
    ELSE name

ChunkSize == 9

RECURSIVE ChunkedOneMore(_, _)
ChunkedOneMore(s, n) ==
    IF s = <<>> THEN <<>>
    ELSE <<SubSeq(s, 1, Min(n + 1, Len(s)))>>
         \o ChunkedOneMore(SubSeq(s, Min(n + 1, Len(s)) + 1, Len(s)), n)

\* more_itertools.chunked
RECURSIVE Chunked(_, _)
Chunked(s, n) ==
    IF s = <<>> THEN <<>>
    ELSE <<SubSeq(s, 1, Min(n, Len(s)))>>
         \o Chunked(SubSeq(s, Min(n, Len(s)) + 1, Len(s)), n)

OpenCanvas ==
    /\ pc = "fetch"
    /\ fetch_i = Len(jsons)
    /\ pdf_name' = NormalizeSaveName(save_name)
    /\ chunked_imgs' = Chunked(imgs, ChunkSize)
    /\ canvas_open' = TRUE
    /\ pc' = "arrange"
    /\ UNCHANGED <<file, save_name, err, texts, jsons, sleeps, lookups, fetches,
                   fetch_i, imgs, pages, show_pages, saved,
                   q_name, q_language, q_cards, q_result>>

(***************************************************************************)
(* _arrange_imgs                                                           *)
(***************************************************************************)
margin == 5
img_width == 185
img_height == 257
GridSize == 3

CellPositionSwapped(collum, row) ==
    [x |-> img_width * collum + margin * (collum + 1),
     y |-> img_height * row + margin * (row + 1)]

\* the position drawInlineImage is given in iteration (collum, row)
CellPosition(collum, row) ==
    [x |-> img_width * row + margin * (row + 1),
     y |-> img_height * collum + margin * (collum + 1)]

\* the two nested loops, from iteration (collum, row) with `index` images drawn
RECURSIVE ArrangeLoop(_, _, _, _)
ArrangeLoop(batch, collum, row, index) ==
    IF collum = GridSize THEN <<>>
    ELSE IF row = GridSize THEN ArrangeLoop(batch, collum + 1, 0, index)
    ELSE IF index = Len(batch) THEN <<>>
    ELSE <<[img |-> batch[index + 1],
            x |-> CellPosition(collum, row).x,
            y |-> CellPosition(collum, row).y]>>
         \o ArrangeLoop(batch, collum, row + 1, index + 1)

ArrangeImgs(batch) == ArrangeLoop(batch, 0, 0, 0)

\* one iteration of `for i in range(len(chunked_imgs))`
ArrangePage ==
    /\ pc = "arrange"
    /\ Len(pages) < Len(chunked_imgs)
    /\ show_pages' = IF Len(pages) # 0 THEN show_pages + 1 ELSE show_pages
    /\ pages' = Append(pages, ArrangeImgs(chunked_imgs[Len(pages) + 1]))
    /\ UNCHANGED <<file, save_name, pc, err, texts, jsons, sleeps, lookups,
                   fetches, fetch_i, imgs, pdf_name, canvas_open, chunked_imgs,
                   saved, q_name, q_language, q_cards, q_result>>

\* pdf.save(), and create_proxy returns
PdfSave ==
    /\ pc = "arrange"
    /\ Len(pages) = Len(chunked_imgs)
    /\ saved' = TRUE
    /\ pc' = "done"
    /\ UNCHANGED <<file, save_name, err, texts, jsons, sleeps, lookups, fetches,
                   fetch_i, imgs, pdf_name, canvas_open, chunked_imgs, pages,
                   show_pages, q_name, q_language, q_cards, q_result>>

(***************************************************************************)
(* create_proxy on an input file.                                          *)
(***************************************************************************)
RunSaveNames == { <<"d", "k">>, <<"d", "k", ".", "p", "d", "f">> }

Init ==
    /\ file \in SeqsUpTo(RawLines, MaxLines)
    /\ save_name \in RunSaveNames
    /\ pc = "read"
    /\ err = "none"
    /\ texts = <<>>
    /\ jsons = <<>>
    /\ sleeps = 0
    /\ lookups = 0
    /\ fetches = 0
    /\ fetch_i = 0
    /\ imgs = <<>>
    /\ pdf_name = <<>>
    /\ canvas_open = FALSE
    /\ chunked_imgs = <<>>
    /\ pages = <<>>
    /\ show_pages = 0
    /\ saved = FALSE
    /\ q_name = <<>>
    /\ q_language = "English"
    /\ q_cards = <<>>
    /\ q_result = "pending"

Next ==
    \/ ReadTxt
    \/ ParseFails
    \/ ServiceUnreachable
    \/ LookupCard
    \/ TextsDataToJsonsReturn
    \/ FetchEntry
    \/ FetchFailure
    \/ OpenCanvas
    \/ ArrangePage
    \/ PdfSave

Spec == Init /\ [][Next]_vars

(***************************************************************************)
(* A single call of _find_card_url_by_name.                                *)
(***************************************************************************)
InitLookup ==
    /\ file = <<>>
    /\ save_name = <<>>
    /\ pc = "query"
    /\ err = "none"
    /\ texts = <<>>
    /\ jsons = <<>>
    /\ sleeps = 0
    /\ lookups = 0
    /\ fetches = 0
    /\ fetch_i = 0
    /\ imgs = <<>>
    /\ pdf_name = <<>>
    /\ canvas_open = FALSE
    /\ chunked_imgs = <<>>
    /\ pages = <<>>
    /\ show_pages = 0
    /\ saved = FALSE
    /\ q_name \in {<<"a">>, <<"J">>}
    /\ q_language \in {"English", "Japanese"}
    /\ q_cards = <<>>
    /\ q_result = "pending"

FindCardUrlCall ==
    /\ pc = "query"
    /\ sleeps' = sleeps + 1
    /\ lookups' = lookups + 1
    /\ \E cards \in Responses :
         /\ q_cards' = cards
         /\ q_result' = FindCardUrlByName(q_name, q_language, cards)
    /\ pc' = "answered"
    /\ UNCHANGED <<file, save_name, err, texts, jsons, fetches, fetch_i, imgs,
                   pdf_name, canvas_open, chunked_imgs, pages, show_pages,
                   saved, q_name, q_language>>

FindCardUrlUnreachable ==
    /\ pc = "query"
    /\ sleeps' = sleeps + 1
    /\ lookups' = lookups + 1
    /\ q_result' = "ServiceUnreachable"
    /\ pc' = "answered"
    /\ UNCHANGED <<file, save_name, err, texts, jsons, fetches, fetch_i, imgs,
                   pdf_name, canvas_open, chunked_imgs, pages, show_pages,
                   saved, q_name, q_language, q_cards>>

NextLookup == FindCardUrlCall \/ FindCardUrlUnreachable

SpecLookup == InitLookup /\ [][NextLookup]_vars

(***************************************************************************)
(* The save-name test of _create_print_pdf on any save name.               *)
(***************************************************************************)
NameChars == {"k", ".", "p", "d", "f"}

InitName ==
    /\ file = <<>>
    /\ save_name \in SeqsUpTo(NameChars, MaxNameLen)
    /\ pc = "name"
    /\ err = "none"
    /\ texts = <<>>
    /\ jsons = <<>>
    /\ sleeps = 0
    /\ lookups = 0
    /\ fetches = 0
    /\ fetch_i = 0
    /\ imgs = <<>>
    /\ pdf_name = <<>>
    /\ canvas_open = FALSE
    /\ chunked_imgs = <<>>
    /\ pages = <<>>
    /\ show_pages = 0
    /\ saved = FALSE
    /\ q_name = <<>>
    /\ q_language = "English"
    /\ q_cards = <<>>
    /\ q_result = "pending"

SaveNameTest ==
    /\ pc = "name"
    /\ pdf_name' = NormalizeSaveName(save_name)
    /\ pc' = "named"
    /\ UNCHANGED <<file, save_name, err, texts, jsons, sleeps, lookups, fetches,
                   fetch_i, imgs, canvas_open, chunked_imgs, pages, show_pages,
                   saved, q_name, q_language, q_cards, q_result>>

NextName == SaveNameTest

SpecName == InitName /\ [][NextName]_vars

(***************************************************************************)
(* Properties.                                                             *)
(***************************************************************************)

\* _texts_data_to_jsons has returned its list
LookupsReturned ==
    \/ pc \in {"fetch", "arrange", "done"}
    \/ pc = "aborted" /\ err = "FetchFailure"

\* C1: the list _texts_data_to_jsons builds holds one entry per retained
\* line consumed so far, in the order of the lines, each with number equal
\* to the value of the first character of its line; the list it returns
\* holds one entry for every retained line.
C1_OneEntryPerLine ==
    /\ Len(jsons) <= Len(texts)
    /\ \A i \in 1..Len(jsons) :
         /\ texts[i][1] \in DigitChars
         /\ jsons[i].number = DigitVal(texts[i][1])
    /\ LookupsReturned => Len(jsons) = Len(texts)

\* C1 on the lines "10 a", "4 a": two entries, with numbers 1 and 4
C1_Witness ==
    /\ pc = "fetch"
    /\ Len(texts) = 2
    /\ texts[1][1] = "1" /\ texts[1][2] = "0" /\ texts[2][1] = "4"
    /\ Len(jsons) = 2
    /\ jsons[1].number = 1 /\ jsons[2].number = 4

\* every line of the file is blank or a stop word
NoRetainedLine ==
    \A i \in 1..Len(file) :
        \/ \A k \in 1..Len(file[i]) : file[i][k] \in Whitespace
        \/ Strip(file[i]) \in STOP_WORDS

\* C2: on a file without retained line the run ends in the empty-input
\* error of _read_txt, and no lookup, no pacing delay, no image download
\* and no output file ever happens.
C2_EmptyInputAbortsFirst ==
    NoRetainedLine =>
        /\ pc \in {"read", "aborted"}
        /\ pc = "aborted" => err = "ValueError_empty"
        /\ sleeps = 0 /\ lookups = 0 /\ fetches = 0
        /\ ~canvas_open /\ ~saved /\ pages = <<>>

\* C2 on a file of a blank line and a stop word
C2_Witness ==
    /\ Len(file) = 2
    /\ \A k \in 1..Len(file[1]) : file[1][k] \in Whitespace
    /\ Strip(file[2]) \in STOP_WORDS
    /\ pc = "aborted"
    /\ err = "ValueError_empty"

\* sum of number over the entries of js that have an image_url
RECURSIVE WantedImages(_)
WantedImages(js) ==
    IF js = <<>> THEN 0
    ELSE (IF Head(js).image_url # "" THEN Head(js).number ELSE 0)
         + WantedImages(Tail(js))

\* C3: after the download loop has consumed k entries, the flat image list
\* holds exactly the sum of number over those of the k entries that have a
\* non-empty image_url (so each such entry added number images and each
\* entry with an empty image_url added none); the images of an entry carry
\* its image_url.
C3_FlatListLength ==
    pc \in {"fetch", "arrange", "done"} =>
        /\ Len(imgs) = WantedImages(SubSeq(jsons, 1, fetch_i))
        /\ \A i \in 1..fetch_i :
             jsons[i].image_url # "" =>
                 \A k \in 1..jsons[i].number :
                     imgs[WantedImages(SubSeq(jsons, 1, i - 1)) + k].url
                         = jsons[i].image_url
        /\ pc # "fetch" => fetch_i = Len(jsons)

\* C3 with an entry of number 2 that has an image and one without image
C3_Witness ==
    /\ pc = "arrange"
    /\ Len(jsons) = 2
    /\ jsons[1].image_url = "" /\ jsons[1].number = 4
    /\ jsons[2].image_url # "" /\ jsons[2].number = 2
    /\ Len(imgs) = 2

\* the draws that put the image with identity id on a page
DrawsOf(id) ==
    {pd \in (1..Len(pages)) \X (1..ChunkSize) :
        /\ pd[2] <= Len(pages[pd[1]])
        /\ pages[pd[1]][pd[2]].img.id = id}

\* C4: no page ever holds more than 9 images, and when the document is
\* saved every image of the flat list has been drawn exactly once and the
\* number of pages is the least n with 9 * n >= T, T the length of the flat
\* list (none for T = 0), separated by n - 1 showPage calls.
C4_NinePerPage ==
    /\ \A p \in 1..Len(pages) : Len(pages[p]) <= 9
    /\ pc = "done" =>
        /\ \A k \in 1..Len(imgs) : Cardinality(DrawsOf(imgs[k].id)) = 1
        /\ 9 * Len(pages) >= Len(imgs)
        /\ 9 * (Len(pages) - 1) < Len(imgs)
        /\ Len(pages) > 0 => show_pages = Len(pages) - 1

\* C4 on a resolved entry of quantity 4 and an unresolved entry: one page
\* with 4 images
C4_Witness ==
    /\ pc = "done"
    /\ Len(jsons) = 2
    /\ jsons[1].number = 4 /\ jsons[1].image_url # ""
    /\ jsons[2].image_url = ""
    /\ Len(pages) = 1
    /\ Len(pages[1]) = 4

\* the name ends with the extension ".pdf"
HasPdfExtension(name) ==
    /\ Len(name) >= 4
    /\ SubSeq(name, Len(name) - 3, Len(name)) = <<".", "p", "d", "f">>

\* C5: the persisted name is the save name when it carries the extension
\* ".pdf" and the save name with ".pdf" appended when it does not, and
\* the test changes nothing when applied to its own result.
C5_SaveNameNormalization ==
    pc = "named" =>
        /\ pdf_name = IF HasPdfExtension(save_name)
                      THEN save_name
                      ELSE save_name \o <<".", "p", "d", "f">>
        /\ NormalizeSaveName(pdf_name) = pdf_name

\* the candidate's name in the requested language is the requested name
ExactMatch(card) ==
    IF q_language = "English"
    THEN card.name = q_name
    ELSE \E k \in 1..Len(card.foreign_names) :
            /\ card.foreign_names[k].language = q_language
            /\ card.foreign_names[k].name = q_name
            /\ \A j \in 1..(k - 1) : card.foreign_names[j].language # q_language

\* every candidate has a name in the requested language
AllNamed ==
    \/ q_language = "English"
    \/ \A i \in 1..Len(q_cards) :
          \E k \in 1..Len(q_cards[i].foreign_names) :
              q_cards[i].foreign_names[k].language = q_language

\* C6: on every candidate list the service returns whose candidates all
\* have a name in the requested language, _find_card_url_by_name returns
\* no image if no candidate is an exact match or no candidate has an image
\* URL, and otherwise the image URL of the first candidate of the
\* service's list that has one, exact match or not.
C6_FirstImageOfUnfilteredList ==
    (pc = "answered" /\ q_result # "ServiceUnreachable" /\ AllNamed) =>
        IF /\ \E i \in 1..Len(q_cards) : ExactMatch(q_cards[i])
           /\ \E i \in 1..Len(q_cards) : q_cards[i].image_url # None
        THEN \E i \in 1..Len(q_cards) :
                /\ q_cards[i].image_url # None
                /\ \A j \in 1..(i - 1) : q_cards[j].image_url = None
                /\ q_result = q_cards[i].image_url
        ELSE q_result = None

\* C6 where the image returned belongs to a candidate that is no exact match
C6_Witness ==
    /\ pc = "answered"
    /\ Len(q_cards) = 2
    /\ ~ExactMatch(q_cards[1]) /\ q_cards[1].image_url = "u1"
    /\ ExactMatch(q_cards[2]) /\ q_cards[2].image_url = "u2"
    /\ q_result = "u1"

\* C7: no lookup of a run ends with an error raised on the candidates the
\* service returned.
C7_LookupMissNeverFatal == err # "IndexError_foreign_names"

\* C8: a run that has aborted has neither constructed the canvas nor saved
\* the output file, and the canvas is constructed and the file saved only
\* after every lookup and every download of the run has succeeded.
C8_NoPartialOutput ==
    /\ pc = "aborted" => ~canvas_open /\ ~saved
    /\ (canvas_open \/ saved) =>
        /\ err = "none"
        /\ Len(jsons) = Len(texts)
        /\ fetch_i = Len(jsons)
        /\ Len(imgs) = WantedImages(jsons)

\* C8 in a run whose second entry fails to download after the first succeeded
C8_Witness ==
    /\ pc = "aborted"
    /\ err = "FetchFailure"
    /\ fetch_i = 1
    /\ Len(imgs) > 0
    /\ ~saved

\* C9: no entry has number 0.
C9_QuantityPositive == \A i \in 1..Len(jsons) : jsons[i].number >= 1

\* C10 as stated: the first three images of a page share one x coordinate
\* and have three distinct y coordinates.
C10_ColumnMajor ==
    \A p \in 1..Len(pages) :
        Len(pages[p]) >= 3 =>
            /\ pages[p][1].x = pages[p][2].x /\ pages[p][2].x = pages[p][3].x
            /\ pages[p][1].y < pages[p][2].y /\ pages[p][2].y < pages[p][3].y

\* C10 amended: a page holds the images of its batch in order, one per
\* cell, in row-major order from the bottom row: images at positions of the
\* same group of three share one y coordinate with x increasing, a later
\* group has a larger y, the images of one column share one x, and no two
\* images of a page are drawn at the same position.
C10_RowMajor ==
    \A p \in 1..Len(pages) :
        /\ Len(pages[p]) = Len(chunked_imgs[p])
        /\ \A k \in 1..Len(pages[p]) : pages[p][k].img = chunked_imgs[p][k]
        /\ \A j, k \in 1..Len(pages[p]) :
             j < k =>
                /\ <<pages[p][j].x, pages[p][j].y>> # <<pages[p][k].x, pages[p][k].y>>
                /\ (j - 1) \div 3 = (k - 1) \div 3 =>
                      /\ pages[p][j].y = pages[p][k].y
                      /\ pages[p][j].x < pages[p][k].x
                /\ (j - 1) \div 3 < (k - 1) \div 3 => pages[p][j].y < pages[p][k].y
                /\ (j - 1) % 3 = (k - 1) % 3 => pages[p][j].x = pages[p][k].x

\* C10 on a page of four images: a full bottom row and one image above it
C10_Witness ==
    \E p \in 1..Len(pages) :
        /\ Len(pages[p]) = 4
        /\ pages[p][1].y = pages[p][3].y
        /\ pages[p][4].y > pages[p][3].y
        /\ pages[p][4].x = pages[p][1].x

====
